---- MODULE Spec2Model ----
(***************************************************************************)
(* Model of main.py, the single-file sub-bass synthesizer:                 *)
(*   analyze_chords, generate_sine_wave, add_sub_bass (the audio engine)   *)
(*   and SubBassApp (the Kivy control surface with its three buttons, the  *)
(*   intensity slider and the Clock-scheduled analysis callback).          *)
(*                                                                         *)
(* Numbers.  Durations are counted in ticks of 1/TicksPerSecond second,    *)
(* frequencies in tenths of a hertz, sample rates in hertz.  Real-valued   *)
(* quantities are exact rationals [num, den] in lowest terms.  A sample of *)
(* the tone is the record of what determines its value                     *)
(* gain * sin(2 pi frequency t): its gain, its frequency and its time t.   *)
(* An ndarray of samples is kept run by run: a run [n, frequency,          *)
(* duration] is the n samples that one generate_sine_wave call computes,   *)
(* sample i of it taken at np.linspace(0, duration, n)[i], and an array    *)
(* is the sequence of its runs in sample order.  size(a) is len(a) and     *)
(* at(a, k) is a[k], indexed from 0 as numpy indexes.                      *)
(*                                                                         *)
(* Arithmetic is exact: a product such as sample_rate * duration is the    *)
(* real product, not its binary floating-point rounding.  With durations   *)
(* that are multiples of 1/16 s the two agree.                             *)
(*                                                                         *)
(* Three specifications: Spec is the application (any order of button      *)
(* presses, slider moves and Clock callbacks); SpecSynth is one call of    *)
(* generate_sine_wave and SpecRender one call of add_sub_bass, each on     *)
(* arguments drawn from bounded sets.                                      *)
(***************************************************************************)
EXTENDS Integers, Sequences, FiniteSets, TLC

VARIABLES
    \* SubBassApp
    status,          \* self.status.text, as a record of what the text says
    chords,          \* self.chords, or NoAttr while the attribute does not exist
    scheduled,       \* Clock.schedule_once callbacks not yet fired
    bass_intensity,  \* self.bass_intensity.value
    rendered,        \* history: add_sub_bass has returned to generate_bass
    \* one call of generate_sine_wave
    s_pc, frequency, duration, sample_rate, wave,
    \* one call of add_sub_bass
    r_pc, timeline, result,
    combined         \* the local combined_bass when add_sub_bass returns

vars == <<status, chords, scheduled, bass_intensity, rendered,
          s_pc, frequency, duration, sample_rate, wave,
          r_pc, timeline, result, combined>>

appVars == <<status, chords, scheduled, bass_intensity, rendered>>
synthVars == <<s_pc, frequency, duration, sample_rate, wave>>
renderVars == <<r_pc, timeline, result, combined>>

----------------------------------------------------------------------------
\* Bounds of the model.

\* Durations are multiples of 1/TicksPerSecond second.
TicksPerSecond == 16
\* Durations of the enumerated inputs range over -MaxTicks..MaxTicks ticks.
MaxTicks == 3
\* Largest of the small sample rates enumerated for generate_sine_wave.
MaxSampleRate == 12
\* Longest enumerated chord timeline.
MaxEvents == 2
\* Most Clock callbacks pending at once.
MaxScheduled == 2
\* The slider takes the values k / IntensitySteps, k in 0..IntensitySteps.
IntensitySteps == 4

----------------------------------------------------------------------------
\* Exact rationals, kept in lowest terms so that equal numbers are equal
\* records and no comparison multiplies two large numbers.

RECURSIVE GCD(_, _)
GCD(a, b) == IF b = 0 THEN a ELSE GCD(b, a % b)

\* n / d, d > 0.
Rat(n, d) ==
    LET g == GCD(IF n < 0 THEN -n ELSE n, d)
    IN  [num |-> n \div g, den |-> d \div g]

RatEq(a, b) == a = b

\* n1 / d1 < n2 / d2, for d1, d2 > 0: by the integer parts and, when these
\* agree, by the fractional parts' reciprocals.
RECURSIVE FracLess(_, _, _, _)
FracLess(n1, d1, n2, d2) ==
    LET q1 == n1 \div d1
        q2 == n2 \div d2
        r1 == n1 % d1
        r2 == n2 % d2
    IN  IF q1 # q2 THEN q1 < q2
        ELSE IF r2 = 0 THEN FALSE
        ELSE IF r1 = 0 THEN TRUE
        ELSE FracLess(d2, r2, d1, r1)

RatLess(a, b) == FracLess(a.num, a.den, b.num, b.den)

RatMul(a, b) == Rat(a.num * b.num, a.den * b.den)

\* Seconds, given ticks.
Seconds(ticks) == Rat(ticks, TicksPerSecond)

----------------------------------------------------------------------------
\* Python and numpy primitives the engine uses.

\* round(x) of the real x = num / den (den > 0), as Python rounds and as
\* "{:.1f}" rounds its last digit: to nearest, ties to even.
py_round(num, den) ==
    LET fl == num \div den
        twice == 2 * (num - fl * den)
    IN  IF twice < den THEN fl
        ELSE IF twice > den THEN fl + 1
        ELSE IF fl % 2 = 0 THEN fl ELSE fl + 1

\* A faulty py_int: the nearest integer instead of the truncation.
py_int_nearest(num, den) == py_round(num, den)

\* int(x) of the real x = num / den (den > 0): truncation toward zero.
py_int(num, den) ==
    IF num >= 0 THEN num \div den ELSE -((-num) \div den)

\* np.array([]).
empty_array == << >>

\* len(a) of an ndarray.
RECURSIVE size(_)
size(a) == IF a = << >> THEN 0 ELSE Head(a).n + size(Tail(a))

\* An outcome of a call: a returned value or a raised exception.
Return(v) == [exc |-> "none", value |-> v]

Raise(e) == [exc |-> e, value |-> empty_array]

\* np.linspace(0, stop, num)[i] for num >= 1, stop in ticks: num evenly
\* spaced points from 0 to stop with the end point included
\* (endpoint=True is numpy's default), so the step is stop / (num - 1).
linspace_at(stop, num, i) ==
    IF num = 1 THEN Rat(0, 1) ELSE Rat(i * stop, num - 1)

\* The attenuation "wave * 0.3".
attenuation == Rat(3, 10)

\* The sample rate generate_sine_wave defaults to.
default_sample_rate == 44100

\* a[k] of an ndarray, 0 <= k < len(a): the sample
\* gain * sin(2 pi frequency t).
RECURSIVE at(_, _)
at(a, k) ==
    IF k < Head(a).n
    THEN [frequency |-> Head(a).frequency,
          t |-> linspace_at(Head(a).duration, Head(a).n, k),
          gain |-> attenuation]
    ELSE at(Tail(a), k - Head(a).n)

\* np.sin(2 * np.pi * frequency * np.linspace(0, duration, num)) * 0.3,
\* num >= 0.
sine_samples(f, d, num) ==
    IF num = 0 THEN empty_array
    ELSE << [n |-> num, frequency |-> f, duration |-> d] >>

\* generate_sine_wave(frequency, duration, sample_rate): frequency in tenths
\* of a hertz, duration in ticks.  np.linspace raises ValueError for a
\* negative number of samples; nothing else is checked.
generate_sine_wave(f, d, sr) ==
    LET num == py_int(sr * d, TicksPerSecond)
    IN  IF num < 0
        THEN Raise("ValueError")
        ELSE Return(sine_samples(f, d, num))

----------------------------------------------------------------------------
\* One call of generate_sine_wave on enumerated arguments.

Frequencies == {-100, 0, 654}

Durations == -MaxTicks..MaxTicks

\* The durations of single tones: those, and 1.0 s and 2.0 s.
ToneDurations == Durations \cup {TicksPerSecond, 2 * TicksPerSecond}

SampleRates == (-1..MaxSampleRate) \cup {default_sample_rate}

NotCalled == [exc |-> "not called", value |-> empty_array]

AppIdle ==
    /\ status = [kind |-> "ready", count |-> 0, names |-> << >>, tenths |-> 0]
    /\ chords = "NoAttr"
    /\ scheduled = 0
    /\ bass_intensity = Rat(1, 2)
    /\ rendered = FALSE

SynthIdle ==
    /\ s_pc = "idle"
    /\ frequency = 0
    /\ duration = 0
    /\ sample_rate = 0
    /\ wave = NotCalled

RenderIdle ==
    /\ r_pc = "idle"
    /\ timeline = << >>
    /\ result = NotCalled
    /\ combined = NotCalled

SynthInit ==
    /\ AppIdle
    /\ RenderIdle
    /\ s_pc = "call"
    /\ frequency \in Frequencies
    /\ duration \in ToneDurations
    /\ sample_rate \in SampleRates
    /\ wave = NotCalled

Synthesize ==
    /\ s_pc = "call"
    /\ wave' = generate_sine_wave(frequency, duration, sample_rate)
    /\ s_pc' = "done"
    /\ UNCHANGED <<frequency, duration, sample_rate>>
    /\ UNCHANGED appVars
    /\ UNCHANGED renderVars

SynthNext == Synthesize

SpecSynth == SynthInit /\ [][SynthNext]_vars

----------------------------------------------------------------------------
\* The audio engine: analyze_chords and add_sub_bass.

\* analyze_chords(audio_file): the fixed table standing in for detection.
analyze_chords(audio_file) ==
    << [chord |-> "C",  root |-> 654,  duration |-> 2 * TicksPerSecond],
       [chord |-> "G",  root |-> 980,  duration |-> 2 * TicksPerSecond],
       [chord |-> "Am", root |-> 1100, duration |-> 2 * TicksPerSecond],
       [chord |-> "F",  root |-> 873,  duration |-> 2 * TicksPerSecond] >>

\* A faulty np_concatenate: only the last layer survives.
np_concatenate_last(layers) == layers[Len(layers)]

\* np.concatenate(layers) of a non-empty list of arrays: the arrays laid end
\* to end, layer j starting where layer j-1 stopped.
RECURSIVE np_concatenate(_)
np_concatenate(layers) ==
    IF Len(layers) = 1 THEN Head(layers)
    ELSE Head(layers) \o np_concatenate(Tail(layers))

\* A faulty concatenate_layers: np.concatenate called on the empty list too,
\* which raises ValueError.
concatenate_layers_unguarded(layers) ==
    IF Len(layers) > 0 THEN Return(np_concatenate(layers)) ELSE Raise("ValueError")

\* "np.concatenate(sub_bass_layers) if sub_bass_layers else np.array([])".
concatenate_layers(layers) ==
    IF Len(layers) > 0 THEN Return(np_concatenate(layers)) ELSE Return(empty_array)

\* The loop of add_sub_bass: one generate_sine_wave call per chord, at the
\* default sample rate, in list order.
sub_bass_calls(cs) ==
    [j \in 1..Len(cs) |->
        generate_sine_wave(cs[j].root, cs[j].duration, default_sample_rate)]

\* The local combined_bass of add_sub_bass as the return statement finds it, or the exception of the first
\* generate_sine_wave call that raises: it leaves the loop and the function.
combined_bass(cs) ==
    LET calls == sub_bass_calls(cs)
        failed == {j \in 1..Len(cs) : calls[j].exc # "none"}
    IN  IF failed # {}
        THEN LET first == CHOOSE j \in failed : \A x \in failed : j <= x
             IN  Raise(calls[first].exc)
        ELSE concatenate_layers([j \in 1..Len(cs) |-> calls[j].value])

\* "len(combined_bass) / 44100 if len(combined_bass) > 0 else 0".
bass_duration_of(bass) ==
    IF size(bass) > 0 THEN Rat(size(bass), 44100) ELSE Rat(0, 1)

RECURSIVE sum_of_durations(_)
sum_of_durations(cs) ==
    IF cs = << >> THEN 0 ELSE Head(cs).duration + sum_of_durations(Tail(cs))

\* A faulty add_sub_bass: bass_duration summed from the chords' durations.
add_sub_bass_from_durations(original_file, cs) ==
    LET bass == combined_bass(cs)
    IN  IF bass.exc # "none"
        THEN bass
        ELSE Return([status |-> "success",
                     chords_detected |-> Len(cs),
                     bass_duration |-> Seconds(sum_of_durations(cs))])

\* add_sub_bass(original_file, chords): the returned dict, or the exception.
add_sub_bass(original_file, cs) ==
    LET bass == combined_bass(cs)
    IN  IF bass.exc # "none"
        THEN bass
        ELSE Return([status |-> "success",
                     chords_detected |-> Len(cs),
                     bass_duration |-> bass_duration_of(bass.value)])

----------------------------------------------------------------------------
\* One call of add_sub_bass on an enumerated timeline.

Roots == {-100, 0, 654, 980}

Events == [chord : {"C"}, root : Roots, duration : Durations]

RECURSIVE SeqsUpTo(_, _)
SeqsUpTo(S, n) ==
    IF n = 0 THEN {<< >>}
    ELSE LET shorter == SeqsUpTo(S, n - 1)
         IN  shorter \cup {Append(q, e) : q \in {x \in shorter : Len(x) = n - 1}, e \in S}

Timelines == SeqsUpTo(Events, MaxEvents) \cup {analyze_chords("dummy.mp3")}

RenderInit ==
    /\ AppIdle
    /\ SynthIdle
    /\ r_pc = "call"
    /\ timeline \in Timelines
    /\ result = NotCalled
    /\ combined = NotCalled

Render ==
    /\ r_pc = "call"
    /\ result' = add_sub_bass("song.mp3", timeline)
    /\ combined' = combined_bass(timeline)
    /\ r_pc' = "done"
    /\ UNCHANGED timeline
    /\ UNCHANGED appVars
    /\ UNCHANGED synthVars

RenderNext == Render

SpecRender == RenderInit /\ [][RenderNext]_vars

----------------------------------------------------------------------------
\* SubBassApp: the control surface.

\* The values the slider can be dragged to; 0.5 is its initial value.
SliderValues == {Rat(k, IntensitySteps) : k \in 0..IntensitySteps} \cup {Rat(1, 2)}

\* "{x:.1f}": the number of tenths shown.
format_1f(x) == py_round(10 * x.num, x.den)

Text(kind) == [kind |-> kind, count |-> 0, names |-> << >>, tenths |-> 0]

\* build(): the widgets as constructed.
Init ==
    /\ status = Text("ready")
    /\ chords = "NoAttr"
    /\ scheduled = 0
    /\ bass_intensity = Rat(1, 2)
    /\ rendered = FALSE
    /\ SynthIdle
    /\ RenderIdle

\* The user drags the slider.
slide ==
    /\ \E v \in SliderValues :
          /\ v # bass_intensity
          /\ bass_intensity' = v
    /\ UNCHANGED <<status, chords, scheduled, rendered>>
    /\ UNCHANGED synthVars
    /\ UNCHANGED renderVars

analyze_song ==
    /\ scheduled < MaxScheduled
    /\ status' = Text("analyzing")
    /\ scheduled' = scheduled + 1
    /\ UNCHANGED <<chords, bass_intensity, rendered>>
    /\ UNCHANGED synthVars
    /\ UNCHANGED renderVars

\* The Clock fires one scheduled callback.
analysis_complete ==
    /\ scheduled > 0
    /\ scheduled' = scheduled - 1
    /\ chords' = analyze_chords("dummy.mp3")
    /\ status' = [kind |-> "detected",
                  count |-> Len(chords'),
                  names |-> [j \in 1..Len(chords') |-> chords'[j].chord],
                  tenths |-> 0]
    /\ UNCHANGED <<bass_intensity, rendered>>
    /\ UNCHANGED synthVars
    /\ UNCHANGED renderVars

\* A faulty generate_bass: a missing self.chords is taken as an empty list.
generate_bass_no_check ==
    /\ LET r == add_sub_bass("song.mp3", IF chords = "NoAttr" THEN << >> ELSE chords)
       IN  /\ status' = [kind |-> "generated",
                         count |-> r.value.chords_detected,
                         names |-> << >>,
                         tenths |-> format_1f(r.value.bass_duration)]
           /\ rendered' = TRUE
    /\ UNCHANGED <<chords, scheduled, bass_intensity>>
    /\ UNCHANGED synthVars
    /\ UNCHANGED renderVars

generate_bass ==
    /\ IF chords = "NoAttr"
       THEN /\ status' = Text("please analyze")
            /\ UNCHANGED rendered
       ELSE LET r == add_sub_bass("song.mp3", chords)
            IN  IF r.exc # "none"
                THEN /\ status' = Text("generating")
                     /\ UNCHANGED rendered
                ELSE /\ status' = [kind |-> "generated",
                                   count |-> r.value.chords_detected,
                                   names |-> << >>,
                                   tenths |-> format_1f(r.value.bass_duration)]
                     /\ rendered' = TRUE
    /\ UNCHANGED <<chords, scheduled, bass_intensity>>
    /\ UNCHANGED synthVars
    /\ UNCHANGED renderVars

save_audio ==
    /\ status' = Text("saved")
    /\ UNCHANGED <<chords, scheduled, bass_intensity, rendered>>
    /\ UNCHANGED synthVars
    /\ UNCHANGED renderVars

Next ==
    \/ slide
    \/ analyze_song
    \/ analysis_complete
    \/ generate_bass
    \/ save_audio

Spec == Init /\ [][Next]_vars

----------------------------------------------------------------------------
\* What the properties below speak of.

\* The synthesizer's input constraints, for one tone and for one chord event.
ValidTone == frequency > 0 /\ duration > 0 /\ sample_rate > 0

ValidEvent(e) == e.root > 0 /\ e.duration > 0

ValidTimeline(cs) == \A j \in 1..Len(cs) : ValidEvent(cs[j])

\* floor(44100 * d) and round(44100 * d) for a duration of d >= 0 ticks.
TruncatedCount(d) == (default_sample_rate * d) \div TicksPerSecond

RoundedCount(d) == py_round(default_sample_rate * d, TicksPerSecond)

RECURSIVE SumTruncated(_)
SumTruncated(cs) ==
    IF cs = << >> THEN 0
    ELSE TruncatedCount(Head(cs).duration) + SumTruncated(Tail(cs))

RECURSIVE SumRounded(_)
SumRounded(cs) ==
    IF cs = << >> THEN 0
    ELSE RoundedCount(Head(cs).duration) + SumRounded(Tail(cs))

\* The sample at which event j of a timeline starts.
StartOf(cs, j) == SumTruncated(SubSeq(cs, 1, j - 1))

C3_InvalidToneRejected ==
    (s_pc = "done" /\ ~ValidTone) => wave.exc # "none"

\* C4: rendering a timeline that holds an event with rootFrequency <= 0 or
\* duration <= 0, wherever it stands, aborts: add_sub_bass raises and no
\* result is returned.
C4_InvalidEventAbortsRender ==
    (r_pc = "done" /\ ~ValidTimeline(timeline)) => result.exc # "none"

\* C5: rendering the empty timeline raises nothing: the buffer has no
\* samples and the result is the success with 0 chords and 0 seconds.
C5_EmptyTimelineSucceeds ==
    (r_pc = "done" /\ timeline = << >>) =>
        /\ result.exc = "none"
        /\ result.value.status = "success"
        /\ result.value.chords_detected = 0
        /\ RatEq(result.value.bass_duration, Rat(0, 1))
        /\ combined.exc = "none"
        /\ size(combined.value) = 0

\* C5's case: the empty timeline has been rendered.
C5_EmptyTimelineRendered ==
    /\ r_pc = "done"
    /\ timeline = << >>
    /\ result # NotCalled

\* C6: when add_sub_bass returns, chords_detected is the number of events
\* and bass_duration is the number of samples of the buffer divided by the
\* sample rate the tones were synthesized at; for the four chords C, G, Am,
\* F of 2.0 s each that is 4 chords, 8.0 s and 352800 samples.
C6_SummaryMatchesBuffer ==
    (r_pc = "done" /\ result.exc = "none") =>
        /\ combined.exc = "none"
        /\ result.value.chords_detected = Len(timeline)
        /\ RatEq(result.value.bass_duration,
                 Rat(size(combined.value), default_sample_rate))
        /\ timeline = analyze_chords("dummy.mp3") =>
              /\ result.value.chords_detected = 4
              /\ RatEq(result.value.bass_duration, Rat(8, 1))
              /\ size(combined.value) = 352800

\* C6's case: a render of several chords has returned a duration that is
\* not the sum of the chords' durations.
C6_DurationDiffersFromInputSum ==
    /\ r_pc = "done"
    /\ result.exc = "none"
    /\ Len(timeline) >= 2
    /\ size(combined.value) > 0
    /\ ~RatEq(result.value.bass_duration, Seconds(sum_of_durations(timeline)))

\* C7: the n sample times of a tone cover [0, duration): sample i is taken
\* at i * duration / n, and the last one before duration.
C7_SampleTimesHalfOpen ==
    (s_pc = "done" /\ ValidTone /\ wave.exc = "none") =>
        LET n == size(wave.value)
        IN  /\ \A i \in 0..(n - 1) :
                  RatEq(at(wave.value, i).t, Rat(i * duration, n))
            /\ n >= 1 => RatLess(at(wave.value, n - 1).t, Rat(duration, 1))

\* C8: a render has happened only after an analysis completed, and the
\* status says "Saved to:" only after a render completed.
C8_TransitionsGated ==
    /\ rendered => chords # "NoAttr"
    /\ status.kind = "generated" => chords # "NoAttr"
    /\ status.kind = "saved" => rendered

\* C9: a render combines the bass layer at the intensity chosen on the
\* slider: the gain of the bass in what generate_bass produces is the
\* slider's value times the layer's own gain.
C9_BassMixedAtChosenIntensity ==
    [][(generate_bass /\ chords # "NoAttr") =>
          RatEq(at(combined_bass(chords).value, 0).gain,
                RatMul(bass_intensity, attenuation))]_vars

\* C10: self.chords is set only by analysis_complete and never changes once
\* set; a generate_bass press before that only asks for an analysis and
\* renders nothing; a press after it renders and reports 4 chords; neither
\* generate_bass nor save_audio changes self.chords.
C10_TimelineSetOnlyByCallback ==
    [][/\ chords' # chords => analysis_complete
       /\ chords # "NoAttr" => chords' = chords
       /\ (generate_bass /\ chords = "NoAttr") =>
             /\ status'.kind = "please analyze"
             /\ rendered' = rendered
       /\ (generate_bass /\ chords # "NoAttr") =>
             /\ status'.kind = "generated"
             /\ status'.count = 4
             /\ rendered'
       /\ (generate_bass \/ save_audio) => chords' = chords]_vars

\* C10's case: a render reported 4 chords while another analysis callback
\* is still pending.
C10_RenderedWithCallbackPending ==
    /\ chords # "NoAttr"
    /\ status.kind = "generated"
    /\ status.count = 4
    /\ rendered
    /\ scheduled > 0

====
